---------------------------- MODULE Spec2Model ----------------------------
(***************************************************************************)
(* Wildfire sensor deployment simulation: the placement strategies         *)
(* (src/algorithms), the simulation loop with its burn-probability (BP)    *)
(* field (src/simulation.py), the fire data loader (src/fire_data.py) and  *)
(* the metrics aggregator (src/metrics.py).                                *)
(*                                                                         *)
(* Numbers.  Field values are integers in units of 1/Unit of a level;      *)
(* the BP value 1.0 is One.  The decay factor is bp_decay / DecayDen, and  *)
(* Unit = DecayDen^MaxSteps makes every product with it exact.  The sensor *)
(* radius is sensor_radius / 2 grid units, so that a test                  *)
(* sqrt(d2) >= radius is 4*d2 >= sensor_radius^2.  A coverage value is a   *)
(* fraction <<numerator, denominator>>.                                    *)
(***************************************************************************)
EXTENDS Integers, Sequences, FiniteSets, TLC

VARIABLES
    pc,                        \* where the program stands
    \* the configuration (main.py)
    algo, num_sensors, sensor_radius, epsilon, detection_threshold,
    bp_decay, num_time_steps,
    \* the environment: the shape of the grids, the step files of the data
    \* directory, the BP seed
    rows, cols, present, dataset, bp_seed,
    \* FireData
    fire_maps,
    \* WildfireSimulation
    bp_map, bp_maps, sensor_positions_history, coverage_history,
    log_records, bp_saved,
    \* the locals of run_simulation; the arguments and result of place_sensors
    t, fire_map, bp_for_placement, sensor_positions, prev_sensor_positions,
    coverage,
    \* SimulationMetrics
    coverage_over_time, average_coverage, final_coverage, metrics_calls,
    \* GeneticDeployment: its configuration and the locals of place_sensors
    population_size, num_generations, mutation_rate,
    population, new_population, next_population, best_candidate,
    best_fitness, generation

configVars == <<algo, num_sensors, sensor_radius, epsilon, detection_threshold,
                bp_decay, num_time_steps>>
envVars == <<rows, cols, present, dataset, bp_seed>>
simVars == <<fire_maps, bp_map, bp_maps, sensor_positions_history,
             coverage_history, log_records, bp_saved>>
loopVars == <<t, fire_map, bp_for_placement, sensor_positions,
              prev_sensor_positions, coverage>>
metricsVars == <<coverage_over_time, average_coverage, final_coverage,
                 metrics_calls>>
geneticVars == <<population_size, num_generations, mutation_rate,
                 population, new_population, next_population, best_candidate,
                 best_fitness, generation>>
vars == <<pc, configVars, envVars, simVars, loopVars, metricsVars,
          geneticVars>>

\* ------------------------------------------------------------------ bounds
Rows == 2
Cols == 2
MaxSteps == 2
MaxSensors == 2
MaxSeed == 2
MaxLevel == 2
MaxRadius2 == 3
DecayDen == 2

RECURSIVE Pow(_, _)
Pow(b, e) == IF e = 0 THEN 1 ELSE b * Pow(b, e - 1)

Unit == Pow(DecayDen, MaxSteps)
One == MaxLevel * Unit

\* ------------------------------------------------------------------- grids
Cells == (0 .. rows - 1) \X (0 .. cols - 1)

\* the cells in the order of "for r in range(rows): for c in range(cols)"
CellSeq == [i \in 1 .. rows * cols |-> <<(i - 1) \div cols, (i - 1) % cols>>]

\* squared Euclidean distance of two cells
Dist2(p, q) == (p[1] - q[1]) * (p[1] - q[1]) + (p[2] - q[2]) * (p[2] - q[2])

\* a separation test that compares with the radius instead of its square
FarEnoughLinear(p, q, radius2) == 4 * Dist2(p, q) >= radius2

\* np.sqrt(d2) >= radius and np.sqrt(d2) < radius, radius = radius2 / 2
FarEnough(p, q, radius2) == 4 * Dist2(p, q) >= radius2 * radius2
TooClose(p, q, radius2) == ~FarEnough(p, q, radius2)

\* np.sqrt(d2) <= radius, and d2 <= radius ** 2
Within(p, q, radius2) == 4 * Dist2(p, q) <= radius2 * radius2

\* the grid a CSV file or np.random.rand(rows, cols) supplies, by seed
FieldOf(seed) ==
    [p \in Cells |-> ((seed * (2 * p[1] + p[2] + 1)) % (MaxLevel + 1)) * Unit]

Seeds == 0 .. MaxSeed
Thresholds == {l * Unit : l \in 1 .. MaxLevel}
Radii2 == 1 .. MaxRadius2

Range(s) == {s[i] : i \in 1 .. Len(s)}
InSeq(x, s) == \E i \in 1 .. Len(s) : s[i] = x

\* Python's None; prev_positions is only ever tested for truth, where None
\* and the empty list are alike
None == <<>>


\* ------------------------------------------------- greedy_deployment.py
\* effective_bp = bp_val * 0.1 for a cell of prev_positions, else bp_val;
\* scores are kept multiplied by GreedyScale
GreedyScale == 10
GreedyPenalty == 1

PrevHas(prev_positions, cell) ==
    /\ prev_positions # None
    /\ InSeq(cell, prev_positions)

GreedyCandidates(bp, prev_positions) ==
    [i \in 1 .. Len(CellSeq) |->
        <<CellSeq[i],
          IF PrevHas(prev_positions, CellSeq[i])
          THEN bp[CellSeq[i]] * GreedyPenalty
          ELSE bp[CellSeq[i]] * GreedyScale>>]

\* x placed before the elements whose score equals its own
InsertDescBeforeEqual(x, s) ==
    LET k == Cardinality({i \in 1 .. Len(s) : s[i][2] > x[2]})
    IN  SubSeq(s, 1, k) \o <<x>> \o SubSeq(s, k + 1, Len(s))

\* x placed behind every element whose score is >= its own
InsertDesc(x, s) ==
    LET k == Cardinality({i \in 1 .. Len(s) : s[i][2] >= x[2]})
    IN  SubSeq(s, 1, k) \o <<x>> \o SubSeq(s, k + 1, Len(s))

\* list.sort(key=score, reverse=True): stable, highest score first
RECURSIVE SortDesc(_)
SortDesc(s) ==
    IF s = <<>> THEN <<>>
    ELSE InsertDesc(s[Len(s)], SortDesc(SubSeq(s, 1, Len(s) - 1)))

\* the score of every candidate closer than the radius to pick becomes 0
ZeroClose(candidates, pick, radius2) ==
    [i \in 1 .. Len(candidates) |->
        IF TooClose(pick, candidates[i][1], radius2)
        THEN <<candidates[i][1], 0>>
        ELSE candidates[i]]

FarFromAll(cell, selected, radius2) ==
    \A i \in 1 .. Len(selected) : FarEnough(cell, selected[i], radius2)

\* a selection loop that runs while len(selected) <= num_sensors
RECURSIVE GreedyLoopOneMore(_, _, _, _)
GreedyLoopOneMore(selected, candidates, n, radius2) ==
    IF ~(Len(selected) <= n /\ candidates # <<>>) THEN selected
    ELSE LET candidate == candidates[1][1]
             rest == Tail(candidates)
         IN  IF FarFromAll(candidate, selected, radius2)
             THEN GreedyLoopOneMore(Append(selected, candidate),
                                    SortDesc(ZeroClose(rest, candidate, radius2)),
                                    n, radius2)
             ELSE GreedyLoopOneMore(selected, rest, n, radius2)

\* a selection loop that ends at the first candidate it has to reject
RECURSIVE GreedyLoopStopOnReject(_, _, _, _)
GreedyLoopStopOnReject(selected, candidates, n, radius2) ==
    IF ~(Len(selected) < n /\ candidates # <<>>) THEN selected
    ELSE LET candidate == candidates[1][1]
             rest == Tail(candidates)
         IN  IF FarFromAll(candidate, selected, radius2)
             THEN GreedyLoopStopOnReject(Append(selected, candidate),
                                         SortDesc(ZeroClose(rest, candidate, radius2)),
                                         n, radius2)
             ELSE selected

\* the while loop of GreedyDeployment.place_sensors
RECURSIVE GreedyLoop(_, _, _, _)
GreedyLoop(selected, candidates, n, radius2) ==
    IF ~(Len(selected) < n /\ candidates # <<>>) THEN selected
    ELSE LET candidate == candidates[1][1]
             rest == Tail(candidates)
         IN  IF FarFromAll(candidate, selected, radius2)
             THEN GreedyLoop(Append(selected, candidate),
                             SortDesc(ZeroClose(rest, candidate, radius2)),
                             n, radius2)
             ELSE GreedyLoop(selected, rest, n, radius2)

GreedyPlace(bp, prev_positions, n, radius2) ==
    GreedyLoop(<<>>, SortDesc(GreedyCandidates(bp, prev_positions)), n, radius2)

\* --------------------------------- reinforcement_learning_deployment.py
\* alpha = 0.7 and beta = 0.3 in tenths; values are kept multiplied by 20
Alpha == 7
Beta == 3

RLValue(bp, fire, prev_positions, cell) ==
    IF PrevHas(prev_positions, cell)
    THEN Alpha * bp[cell] + Beta * fire[cell]
    ELSE 2 * (Alpha * bp[cell] + Beta * fire[cell])

RLCandidates(bp, fire, prev_positions) ==
    [i \in 1 .. Len(CellSeq) |->
        <<CellSeq[i], RLValue(bp, fire, prev_positions, CellSeq[i])>>]

RLValid(available, selected, radius2) ==
    SelectSeq(available, LAMBDA cv : FarFromAll(cv[1], selected, radius2))

\* the last of the candidates of the highest value
MaxLast(valid) ==
    valid[CHOOSE i \in 1 .. Len(valid) :
            /\ \A j \in 1 .. Len(valid) : valid[j][2] <= valid[i][2]
            /\ \A j \in i + 1 .. Len(valid) : valid[j][2] < valid[i][2]]

\* max(valid_candidates, key=value): the first of the highest value
MaxFirst(valid) ==
    valid[CHOOSE i \in 1 .. Len(valid) :
            /\ \A j \in 1 .. Len(valid) : valid[j][2] <= valid[i][2]
            /\ \A j \in 1 .. i - 1 : valid[j][2] < valid[i][2]]

\* what one pass of the while loop may choose: random.random() < epsilon is
\* possible when epsilon > 0 and its negation when epsilon < 1 (eps2 is
\* epsilon in halves)
RLChoices(valid, eps2) ==
    (IF eps2 > 0 THEN Range(valid) ELSE {}) \cup
    (IF eps2 < 2 THEN {MaxFirst(valid)} ELSE {})

RLRemoveClose(available, chosen, radius2) ==
    SelectSeq(available, LAMBDA cv : FarEnough(cv[1], chosen[1], radius2))

\* the while loop of ReinforcementLearningDeployment.place_sensors: every
\* placement it can return, over the outcomes of its random draws
RECURSIVE RLLoop(_, _, _, _, _)
RLLoop(selected, available, n, radius2, eps2) ==
    IF ~(Len(selected) < n /\ available # <<>>) THEN {selected}
    ELSE LET valid == RLValid(available, selected, radius2)
         IN  IF valid = <<>> THEN {selected}
             ELSE UNION {RLLoop(Append(selected, chosen[1]),
                                RLRemoveClose(available, chosen, radius2),
                                n, radius2, eps2) :
                         chosen \in RLChoices(valid, eps2)}

RLPlace(bp, fire, prev_positions, n, radius2, eps2) ==
    RLLoop(<<>>, RLCandidates(bp, fire, prev_positions), n, radius2, eps2)

\* ------------------------------------------------ genetic_deployment.py
GenCols == 2
GenSensors == 2
GenPop == 3
GenGens == 2

\* alpha = 0.5 and beta = 0.5 in tenths; a fitness is kept multiplied by
\* FitScale * One
GAlpha == 5
GBeta == 5
FitScale == 10

RECURSIVE SeqSum(_)
SeqSum(s) == IF s = <<>> THEN 0 ELSE Head(s) + SeqSum(Tail(s))

\* math.sqrt of the squared distance of two cells of one row
ISqrt(d2) == CHOOSE k \in 0 .. d2 : k * k = d2

\* (random.randint(0, rows - 1), random.randint(0, cols - 1))
RandomCell == Cells

\* random_candidate(): num_sensors cells, each drawn on its own
RandomCandidate(n) == [1 .. n -> RandomCell]

\* fitness(candidate)
Fitness(candidate, bp, fire, radius2) ==
    LET n == Len(candidate)
        value == SeqSum([i \in 1 .. n |->
                     GAlpha * bp[candidate[i]] + GBeta * fire[candidate[i]]])
        penalty == SeqSum([k \in 1 .. n * n |->
                     LET i == ((k - 1) \div n) + 1
                         j == ((k - 1) % n) + 1
                     IN  IF i < j /\ TooClose(candidate[i], candidate[j], radius2)
                         THEN One * (FitScale \div 2)
                              * (radius2 - 2 * ISqrt(Dist2(candidate[i],
                                                           candidate[j])))
                         ELSE 0])
    IN  value - penalty

\* the duplicate repair of crossover: a position already kept is replaced
\* by a freshly drawn one, which is not compared with anything
RECURSIVE RepairChild(_, _)
RepairChild(unique_child, rest) ==
    IF rest = <<>> THEN {unique_child}
    ELSE IF ~InSeq(Head(rest), unique_child)
         THEN RepairChild(Append(unique_child, Head(rest)), Tail(rest))
         ELSE UNION {RepairChild(Append(unique_child, pos), Tail(rest)) :
                     pos \in RandomCell}

\* "while len(unique_child) < num_sensors": draws until n distinct are kept
RECURSIVE PadChild(_, _)
PadChild(unique_child, n) ==
    IF ~(Len(unique_child) < n) THEN {unique_child}
    ELSE UNION {PadChild(Append(unique_child, pos), n) :
                pos \in RandomCell \ Range(unique_child)}

\* crossover(parent1, parent2): every child the draws allow;
\* random.randint(1, num_sensors - 1) has no value when num_sensors < 2
Crossover(parent1, parent2, n) ==
    UNION {UNION {{SubSeq(padded, 1, n) : padded \in PadChild(u, n)} :
                  u \in RepairChild(<<>>, SubSeq(parent1, 1, point)
                                          \o SubSeq(parent2, point + 1, n))} :
           point \in 1 .. n - 1}

\* what mutate can leave in the place of one gene (rate2 is mutation_rate
\* in halves): random.random() < mutation_rate can hold when it is > 0 and
\* can fail when it is < 1
MutateGene(gene, rate2) ==
    (IF rate2 < 2 THEN {gene} ELSE {}) \cup
    (IF rate2 > 0 THEN RandomCell ELSE {})

\* mutate(candidate)
Mutate(candidate, n, rate2) ==
    {m \in [1 .. n -> RandomCell] :
        \A i \in 1 .. n : m[i] \in MutateGene(candidate[i], rate2)}

\* mutate(crossover(parent1, parent2))
Child(parent1, parent2, n, rate2) ==
    UNION {Mutate(c, n, rate2) : c \in Crossover(parent1, parent2, n)}

\* random.sample(population, 3): three different members, in drawn order
Sample3(size) ==
    {s \in (1 .. size) \X (1 .. size) \X (1 .. size) :
        s[1] # s[2] /\ s[1] # s[3] /\ s[2] # s[3]}

\* tournament[tournament_fitness.index(max(tournament_fitness))]
Winner(tournament, bp, fire, radius2) ==
    tournament[CHOOSE i \in 1 .. 3 :
        /\ \A j \in 1 .. 3 : Fitness(tournament[j], bp, fire, radius2)
                                 <= Fitness(tournament[i], bp, fire, radius2)
        /\ \A j \in 1 .. i - 1 : Fitness(tournament[j], bp, fire, radius2)
                                     < Fitness(tournament[i], bp, fire, radius2)]

\* a tracking that also replaces the best on an equal fitness
RECURSIVE TrackBestOrEqual(_, _, _, _, _)
TrackBestOrEqual(best, pop, bp, fire, radius2) ==
    IF pop = <<>> THEN best
    ELSE LET fit == Fitness(Head(pop), bp, fire, radius2)
         IN  TrackBestOrEqual(IF best[2] = None \/ fit >= best[2][1]
                              THEN <<<<Head(pop)>>, <<fit>>>>
                              ELSE best,
                              Tail(pop), bp, fire, radius2)

\* "if fit > best_fitness" for one candidate; <<best_candidate, best_fitness>>
\* where None is no candidate and -inf
RECURSIVE TrackBest(_, _, _, _, _)
TrackBest(best, pop, bp, fire, radius2) ==
    IF pop = <<>> THEN best
    ELSE LET fit == Fitness(Head(pop), bp, fire, radius2)
         IN  TrackBest(IF best[2] = None \/ fit > best[2][1]
                       THEN <<<<Head(pop)>>, <<fit>>>>
                       ELSE best,
                       Tail(pop), bp, fire, radius2)

\* ------------------------------------------------------- simulation.py
\* self.bp_map * self.bp_decay
Decay(bp, decay) == [p \in Cells |-> (bp[p] * decay) \div DecayDen]

Max2(a, b) == IF a >= b THEN a ELSE b
Min2(a, b) == IF a <= b THEN a ELSE b

\* a reinforcement of the whole bounding box, without the distance test
UpdateBPWithSensorBox(bp, center, radius2) ==
    LET reach == radius2 \div 2
    IN  [p \in Cells |->
            IF /\ p[1] \in center[1] - reach .. center[1] + reach
               /\ p[2] \in center[2] - reach .. center[2] + reach
            THEN One ELSE bp[p]]

\* WildfireSimulation._update_bp_map_with_sensor; int(radius) = radius2 \div 2
UpdateBPWithSensor(bp, center, radius2) ==
    LET reach == radius2 \div 2
        r_min == Max2(0, center[1] - reach)
        r_max == Min2(rows, center[1] + reach + 1)
        c_min == Max2(0, center[2] - reach)
        c_max == Min2(cols, center[2] + reach + 1)
    IN  [p \in Cells |->
            IF /\ p[1] \in r_min .. r_max - 1
               /\ p[2] \in c_min .. c_max - 1
               /\ Within(p, center, radius2)
            THEN One ELSE bp[p]]

\* for (r, c) in sensor_positions: if fire_map[r, c] >= threshold: update
RECURSIVE Reinforce(_, _, _, _, _)
Reinforce(bp, positions, fire, threshold, radius2) ==
    IF positions = <<>> THEN bp
    ELSE Reinforce(IF fire[Head(positions)] >= threshold
                   THEN UpdateBPWithSensor(bp, Head(positions), radius2)
                   ELSE bp,
                   Tail(positions), fire, threshold, radius2)

BurningCells(fire, threshold) ==
    SelectSeq(CellSeq, LAMBDA p : fire[p] >= threshold)

\* the inner loop of _compute_coverage, up to its break
RECURSIVE SensorHit(_, _, _)
SensorHit(cell, positions, radius2) ==
    IF positions = <<>> THEN FALSE
    ELSE IF Within(cell, Head(positions), radius2) THEN TRUE
    ELSE SensorHit(cell, Tail(positions), radius2)

\* a count without the break: one per sensor in reach
RECURSIVE DetectedNoBreak(_, _, _)
DetectedNoBreak(burning, positions, radius2) ==
    IF burning = <<>> THEN 0
    ELSE Cardinality({i \in 1 .. Len(positions) :
                         Within(Head(burning), positions[i], radius2)})
         + DetectedNoBreak(Tail(burning), positions, radius2)

RECURSIVE Detected(_, _, _)
Detected(burning, positions, radius2) ==
    IF burning = <<>> THEN 0
    ELSE (IF SensorHit(Head(burning), positions, radius2) THEN 1 ELSE 0)
         + Detected(Tail(burning), positions, radius2)

\* WildfireSimulation._compute_coverage; 1.0 is <<1, 1>>
ComputeCoverage(fire, positions, threshold, radius2) ==
    LET burning == BurningCells(fire, threshold)
    IN  IF burning = <<>> THEN <<1, 1>>
        ELSE <<Detected(burning, positions, radius2), Len(burning)>>


\* ----------------------------------------------------------- metrics.py
MaxHistory == 3
MaxCalls == 2

CoverageValues == {<<0, 1>>, <<1, 2>>, <<1, 1>>}

RatEq(a, b) == a[1] * b[2] = b[1] * a[2]
RatAdd(a, b) == <<a[1] * b[2] + b[1] * a[2], a[2] * b[2]>>

\* sum(coverage_history)
RECURSIVE RatSum(_)
RatSum(s) == IF s = <<>> THEN <<0, 1>> ELSE RatAdd(Head(s), RatSum(Tail(s)))

\* sum(coverage_history) / len(coverage_history)
Mean(s) == <<RatSum(s)[1], RatSum(s)[2] * Len(s)>>

\* SimulationMetrics.__init__
MetricsInit ==
    /\ coverage_over_time = <<>>
    /\ average_coverage = <<0, 1>>
    /\ final_coverage = <<0, 1>>
    /\ metrics_calls = 0

\* SimulationMetrics.compute_metrics
ComputeMetrics(coverage_hist) ==
    /\ coverage_over_time' = coverage_hist
    /\ IF coverage_hist # <<>>
       THEN /\ average_coverage' = Mean(coverage_hist)
            /\ final_coverage' = coverage_hist[Len(coverage_hist)]
       ELSE UNCHANGED <<average_coverage, final_coverage>>
    /\ metrics_calls' = metrics_calls + 1

\* ---------------------------------------------------------- the states
\* a state with nothing loaded, built or placed yet
Blank ==
    /\ fire_maps = <<>>
    /\ bp_map = None
    /\ bp_maps = <<>>
    /\ sensor_positions_history = <<>>
    /\ coverage_history = <<>>
    /\ log_records = <<>>
    /\ bp_saved = <<>>
    /\ sensor_positions = None
    /\ coverage = None
    /\ MetricsInit
    /\ population = <<>>
    /\ new_population = <<>>
    /\ next_population = <<>>
    /\ best_candidate = None
    /\ best_fitness = None
    /\ generation = 0

\* no genetic strategy is configured
NoGenetic ==
    /\ population_size = 0
    /\ num_generations = 0
    /\ mutation_rate = 0

\* every strategy main.py can build for the loop below; each returns the
\* placements its random draws allow
PlaceSensors(fire, bp, prev_positions) ==
    IF algo = "greedy"
    THEN {GreedyPlace(bp, prev_positions, num_sensors, sensor_radius)}
    ELSE RLPlace(bp, fire, prev_positions, num_sensors, sensor_radius, epsilon)

\* ------------------------------------------- main.py: a simulation run
Init ==
    /\ pc = "load"
    /\ algo \in {"greedy", "rl"}
    /\ num_sensors \in 0 .. MaxSensors
    /\ sensor_radius \in Radii2
    /\ epsilon \in (IF algo = "rl" THEN 0 .. 1 ELSE {0})
    /\ detection_threshold \in Thresholds
    /\ bp_decay \in 1 .. DecayDen
    /\ num_time_steps \in 0 .. MaxSteps
    /\ rows = Rows
    /\ cols = Cols
    /\ present \in SUBSET (0 .. num_time_steps - 1)
    /\ dataset \in Seeds
    /\ bp_seed \in Seeds
    /\ t = 0
    /\ fire_map = None
    /\ bp_for_placement = None
    /\ prev_sensor_positions = None
    /\ NoGenetic
    /\ Blank

\* the grid of the file ForestGrid<step>.csv
FileGrid(step) == FieldOf(dataset + step)

\* FireData._load_data: a missing file is skipped
RECURSIVE LoadData(_)
LoadData(n) ==
    IF n = 0 THEN <<>>
    ELSE IF (n - 1) \in present
         THEN Append(LoadData(n - 1), FileGrid(n - 1))
         ELSE LoadData(n - 1)

\* FireData(data_dir, num_time_steps)
Load ==
    /\ pc = "load"
    /\ fire_maps' = LoadData(num_time_steps)
    /\ pc' = "construct"
    /\ UNCHANGED <<configVars, envVars, bp_map, bp_maps,
                   sensor_positions_history, coverage_history, log_records,
                   bp_saved, loopVars, metricsVars, geneticVars>>

\* WildfireSimulation.__init__: get_fire_map(0) raises IndexError when no
\* grid was loaded
Construct ==
    /\ pc = "construct"
    /\ IF Len(fire_maps) = 0
       THEN /\ pc' = "failed"
            /\ UNCHANGED <<bp_map, bp_maps>>
       ELSE /\ pc' = "run"
            /\ bp_map' = FieldOf(bp_seed)
            /\ bp_maps' = <<FieldOf(bp_seed)>>
    /\ UNCHANGED <<configVars, envVars, fire_maps, sensor_positions_history,
                   coverage_history, log_records, bp_saved, loopVars,
                   metricsVars, geneticVars>>

\* a loop body whose history keeps the live grid itself, not a copy of it:
\* the reinforcement of step 0 then shows in the first entry
StepBodyNoCopy(placement) ==
    LET fm == fire_maps[t + 1]
        decayed == IF t > 0 THEN Decay(bp_map, bp_decay) ELSE bp_map
        updated == Reinforce(decayed, placement, fm, detection_threshold,
                             sensor_radius)
        cov == ComputeCoverage(fm, placement, detection_threshold,
                               sensor_radius)
    IN  /\ fire_map' = fm
        /\ sensor_positions' = placement
        /\ sensor_positions_history' =
               Append(sensor_positions_history, placement)
        /\ bp_map' = updated
        /\ bp_maps' = IF t = 0 THEN <<updated, updated>>
                     ELSE Append(bp_maps, updated)
        /\ bp_saved' = Append(bp_saved, <<t, updated>>)
        /\ coverage' = cov
        /\ coverage_history' = Append(coverage_history, cov)
        /\ prev_sensor_positions' = placement
        /\ log_records' = Append(log_records,
               [time_step |-> t, sensor_positions |-> placement,
                coverage |-> cov])
        /\ t' = t + 1

\* one pass of the loop of run_simulation
StepBody(placement) ==
    LET fm == fire_maps[t + 1]
        decayed == IF t > 0 THEN Decay(bp_map, bp_decay) ELSE bp_map
        updated == Reinforce(decayed, placement, fm, detection_threshold,
                             sensor_radius)
        cov == ComputeCoverage(fm, placement, detection_threshold,
                               sensor_radius)
    IN  /\ fire_map' = fm
        /\ sensor_positions' = placement
        /\ sensor_positions_history' =
               Append(sensor_positions_history, placement)
        /\ bp_map' = updated
        /\ bp_maps' = Append(bp_maps, updated)
        /\ bp_saved' = Append(bp_saved, <<t, updated>>)
        /\ coverage' = cov
        /\ coverage_history' = Append(coverage_history, cov)
        /\ prev_sensor_positions' = placement
        /\ log_records' = Append(log_records,
               [time_step |-> t, sensor_positions |-> placement,
                coverage |-> cov])
        /\ t' = t + 1

\* the BP field run_simulation hands to place_sensors at step t
BPForPlacement == IF t = 0 THEN bp_map ELSE bp_maps[(t - 1) + 1]

Step ==
    /\ pc = "run"
    /\ t < num_time_steps
    /\ t < Len(fire_maps)
    /\ bp_for_placement' = BPForPlacement
    /\ \E placement \in PlaceSensors(fire_maps[t + 1], BPForPlacement,
                                     prev_sensor_positions) :
           StepBody(placement)
    /\ UNCHANGED <<pc, configVars, envVars, fire_maps, metricsVars, geneticVars>>

\* a loop that ends quietly when the grids run out
StepFailsSilently ==
    /\ pc = "run"
    /\ t < num_time_steps
    /\ t >= Len(fire_maps)
    /\ pc' = "completed"
    /\ UNCHANGED <<configVars, envVars, simVars, loopVars, metricsVars, geneticVars>>

\* get_fire_map(t) raises IndexError: fewer grids than steps
StepFails ==
    /\ pc = "run"
    /\ t < num_time_steps
    /\ t >= Len(fire_maps)
    /\ pc' = "failed"
    /\ UNCHANGED <<configVars, envVars, simVars, loopVars, metricsVars, geneticVars>>

\* run_simulation returns
Complete ==
    /\ pc = "run"
    /\ t = num_time_steps
    /\ pc' = "completed"
    /\ UNCHANGED <<configVars, envVars, simVars, loopVars, metricsVars, geneticVars>>

Next == Load \/ Construct \/ Step \/ StepFails \/ Complete

Spec == Init /\ [][Next]_vars

\* --------------------------------------- one call of a placement strategy
InitDirect ==
    /\ pc = "call"
    /\ algo \in {"greedy", "rl"}
    /\ num_sensors \in 0 .. MaxSensors
    /\ sensor_radius \in Radii2
    /\ epsilon \in (IF algo = "rl" THEN 0 .. 2 ELSE {0})
    /\ detection_threshold \in Thresholds
    /\ bp_decay = DecayDen
    /\ num_time_steps = 1
    /\ rows = Rows
    /\ cols = Cols
    /\ present = {0}
    /\ dataset \in Seeds
    /\ bp_seed \in Seeds
    /\ t = 0
    /\ fire_map = FieldOf(dataset)
    /\ bp_for_placement = FieldOf(bp_seed)
    /\ prev_sensor_positions \in {None} \cup {<<c>> : c \in Cells}
    /\ NoGenetic
    /\ Blank

\* place_sensors(fire_map, bp_map, time_step, prev_positions)
Place ==
    /\ pc = "call"
    /\ sensor_positions' \in
           PlaceSensors(fire_map, bp_for_placement, prev_sensor_positions)
    /\ pc' = "placed"
    /\ UNCHANGED <<configVars, envVars, simVars, metricsVars, geneticVars, t,
                   fire_map, bp_for_placement, prev_sensor_positions,
                   coverage>>

\* _compute_coverage(fire_map, sensor_positions)
Score ==
    /\ pc = "placed"
    /\ coverage' = ComputeCoverage(fire_map, sensor_positions,
                                   detection_threshold, sensor_radius)
    /\ pc' = "scored"
    /\ UNCHANGED <<configVars, envVars, simVars, metricsVars, geneticVars, t,
                   fire_map, bp_for_placement, prev_sensor_positions,
                   sensor_positions>>

NextDirect == Place \/ Score

SpecDirect == InitDirect /\ [][NextDirect]_vars

\* ------------------------------- one call of the genetic place_sensors
InitGenetic ==
    /\ pc = "gen_init"
    /\ algo = "genetic"
    /\ num_sensors \in 0 .. GenSensors
    /\ sensor_radius \in Radii2
    /\ epsilon = 0
    /\ detection_threshold = Unit
    /\ bp_decay = DecayDen
    /\ num_time_steps = 1
    /\ rows = 1
    /\ cols \in 1 .. GenCols
    /\ present = {0}
    /\ bp_seed \in Seeds
    /\ dataset = MaxSeed - bp_seed
    /\ t = 0
    /\ fire_map = FieldOf(dataset)
    /\ bp_for_placement = FieldOf(bp_seed)
    /\ prev_sensor_positions = None
    /\ population_size \in 0 .. GenPop
    /\ num_generations \in 0 .. GenGens
    /\ mutation_rate \in 0 .. 1
    /\ Blank

\* population = [random_candidate() for _ in range(population_size)]
GenPopulate ==
    /\ pc = "gen_init"
    /\ population' \in [1 .. population_size -> RandomCandidate(num_sensors)]
    /\ pc' = "gen_loop"
    /\ UNCHANGED <<configVars, envVars, simVars, loopVars, metricsVars,
                   population_size, num_generations, mutation_rate,
                   new_population, next_population, best_candidate,
                   best_fitness, generation>>

\* the head of a generation: the fitness of every candidate, best so far
GenEvaluate ==
    /\ pc = "gen_loop"
    /\ generation < num_generations
    /\ LET best == TrackBest(<<best_candidate, best_fitness>>, population,
                             bp_for_placement, fire_map, sensor_radius)
       IN  /\ best_candidate' = best[1]
           /\ best_fitness' = best[2]
    /\ pc' = IF population_size > 0 THEN "gen_select" ELSE "gen_cross"
    /\ UNCHANGED <<configVars, envVars, simVars, loopVars, metricsVars,
                   population_size, num_generations, mutation_rate,
                   population, new_population, next_population, generation>>

\* one tournament of the selection loop
GenSelect ==
    /\ pc = "gen_select"
    /\ \E s \in Sample3(Len(population)) :
           new_population' = Append(new_population,
               Winner(<<population[s[1]], population[s[2]], population[s[3]]>>,
                      bp_for_placement, fire_map, sensor_radius))
    /\ pc' = IF Len(new_population) + 1 < population_size
             THEN "gen_select" ELSE "gen_cross"
    /\ UNCHANGED <<configVars, envVars, simVars, loopVars, metricsVars,
                   population_size, num_generations, mutation_rate,
                   population, next_population, best_candidate, best_fitness,
                   generation>>

\* random.sample raises ValueError: fewer than three candidates
GenSelectFails ==
    /\ pc = "gen_select"
    /\ Len(population) < 3
    /\ pc' = "failed"
    /\ UNCHANGED <<configVars, envVars, simVars, loopVars, metricsVars,
                   geneticVars>>

\* one pass of the crossover loop: two children of a pair, each mutated;
\* behind the last pass, population = next_population[:population_size].
\* new_population and next_population are assigned afresh in the next
\* generation before they are read, and are emptied here.
GenCross ==
    /\ pc = "gen_cross"
    /\ Len(next_population) < population_size
    /\ num_sensors >= 2
    /\ LET i == Len(next_population)
           parent1 == new_population[i + 1]
           parent2 == new_population[((i + 1) % population_size) + 1]
       IN  \E child1 \in Child(parent1, parent2, num_sensors, mutation_rate) :
           \E child2 \in Child(parent2, parent1, num_sensors, mutation_rate) :
               LET extended == next_population \o <<child1, child2>>
               IN  IF Len(extended) < population_size
                   THEN /\ next_population' = extended
                        /\ UNCHANGED <<population, new_population,
                                       generation, pc>>
                   ELSE /\ next_population' = <<>>
                        /\ new_population' = <<>>
                        /\ population' = SubSeq(extended, 1, population_size)
                        /\ generation' = generation + 1
                        /\ pc' = "gen_loop"
    /\ UNCHANGED <<configVars, envVars, simVars, loopVars, metricsVars,
                   population_size, num_generations, mutation_rate,
                   best_candidate, best_fitness>>

\* random.randint(1, num_sensors - 1) raises ValueError: an empty range
GenCrossFails ==
    /\ pc = "gen_cross"
    /\ Len(next_population) < population_size
    /\ num_sensors < 2
    /\ pc' = "failed"
    /\ UNCHANGED <<configVars, envVars, simVars, loopVars, metricsVars,
                   geneticVars>>

\* a generation of an empty population: nothing selected, nothing crossed
GenEmpty ==
    /\ pc = "gen_cross"
    /\ population_size = 0
    /\ population' = <<>>
    /\ generation' = generation + 1
    /\ pc' = "gen_loop"
    /\ UNCHANGED <<configVars, envVars, simVars, loopVars, metricsVars,
                   population_size, num_generations, mutation_rate,
                   new_population, next_population, best_candidate,
                   best_fitness>>

\* return best_candidate: a placement, or None when nothing was evaluated
GenReturn ==
    /\ pc = "gen_loop"
    /\ generation >= num_generations
    /\ IF best_candidate = None
       THEN /\ pc' = "returned_none"
            /\ UNCHANGED sensor_positions
       ELSE /\ pc' = "placed"
            /\ sensor_positions' = best_candidate[1]
    /\ UNCHANGED <<configVars, envVars, simVars, metricsVars, geneticVars, t,
                   fire_map, bp_for_placement, prev_sensor_positions,
                   coverage>>

NextGenetic ==
    \/ GenPopulate \/ GenEvaluate \/ GenSelect \/ GenSelectFails
    \/ GenCross \/ GenCrossFails \/ GenEmpty \/ GenReturn

\* a call of any of the three strategies, then the coverage of its result
InitPlace == InitDirect \/ InitGenetic

NextPlace == NextDirect \/ NextGenetic

SpecPlace == InitPlace /\ [][NextPlace]_vars

\* ------------------------------------------ calls of compute_metrics
InitMetrics ==
    /\ pc = "metrics"
    /\ algo = "greedy"
    /\ num_sensors = 0
    /\ sensor_radius = 1
    /\ epsilon = 0
    /\ detection_threshold = Unit
    /\ bp_decay = DecayDen
    /\ num_time_steps = 0
    /\ rows = Rows
    /\ cols = Cols
    /\ present = {}
    /\ dataset = 0
    /\ bp_seed = 0
    /\ t = 0
    /\ fire_map = None
    /\ bp_for_placement = None
    /\ prev_sensor_positions = None
    /\ NoGenetic
    /\ Blank

CoverageHistories ==
    UNION {[1 .. n -> CoverageValues] : n \in 0 .. MaxHistory}

CallComputeMetrics ==
    /\ pc = "metrics"
    /\ metrics_calls < MaxCalls
    /\ \E h \in CoverageHistories : ComputeMetrics(h)
    /\ UNCHANGED <<pc, configVars, envVars, simVars, loopVars, geneticVars>>

NextMetrics == CallComputeMetrics

SpecMetrics == InitMetrics /\ [][NextMetrics]_vars


\* ------------------- the strategies on a row of cells, and scenario A
LineCols == 4
LineSensors == 3

\* place_sensors(fire_map, bp_map, time_step, prev_positions) on a grid of
\* one row, where a sensor can be close to some cells and far from others
InitLine ==
    /\ pc = "call"
    /\ algo \in {"greedy", "rl"}
    /\ num_sensors \in 0 .. LineSensors
    /\ sensor_radius \in Radii2
    /\ epsilon \in (IF algo = "rl" THEN 0 .. 2 ELSE {0})
    /\ detection_threshold \in Thresholds
    /\ bp_decay = DecayDen
    /\ num_time_steps = 1
    /\ rows = 1
    /\ cols = LineCols
    /\ present = {0}
    /\ dataset \in Seeds
    /\ bp_seed \in Seeds
    /\ t = 0
    /\ fire_map = FieldOf(dataset)
    /\ bp_for_placement = FieldOf(bp_seed)
    /\ prev_sensor_positions \in {None} \cup {<<c>> : c \in Cells}
    /\ NoGenetic
    /\ Blank

\* the field that is 1.0 at the centre (1, 1) and 0 elsewhere
CentreField == [p \in Cells |-> IF p = <<1, 1>> THEN One ELSE 0]

\* scenario A: 3x3 grid, greedy, num_sensors = 1, sensor_radius = 1,
\* detection_threshold = 0.5, fire and BP 1 at the centre and 0 elsewhere
InitScenarioA ==
    /\ pc = "call"
    /\ algo = "greedy"
    /\ num_sensors = 1
    /\ sensor_radius = 2
    /\ epsilon = 0
    /\ detection_threshold = One \div 2
    /\ bp_decay = DecayDen
    /\ num_time_steps = 1
    /\ rows = 3
    /\ cols = 3
    /\ present = {0}
    /\ dataset = 0
    /\ bp_seed = 0
    /\ t = 0
    /\ fire_map = CentreField
    /\ bp_for_placement = CentreField
    /\ prev_sensor_positions = None
    /\ NoGenetic
    /\ Blank

\* the simulation runs and the single calls of the greedy and the
\* epsilon-greedy strategy
InitSelect == Init \/ InitLine \/ InitScenarioA

NextSelect == Next \/ NextDirect

SpecSelect == InitSelect /\ [][NextSelect]_vars


\* ============================================================== claims
\* the steps run_simulation has executed so far
Executed == Len(sensor_positions_history)

\* C1: at every step t >= 1 the BP field handed to the strategy is the
\* snapshot taken at the end of step t-1 (the grid after that step's decay
\* and reinforcement); at step 0 it is the initial grid.  bp_maps holds the
\* initial grid first, so the snapshot of step s is its entry s + 2.
C1_OneStepLag ==
    (pc \in {"run", "completed", "failed"} /\ Executed >= 1) =>
        bp_for_placement =
            (IF Executed - 1 = 0 THEN bp_maps[1]
             ELSE bp_maps[(Executed - 2) + 2])

\* C2: any two distinct positions of a placement returned by the greedy or
\* the epsilon-greedy strategy are at Euclidean distance >= sensor_radius
C2_Separated ==
    pc \in {"placed", "scored"} =>
        \A i, j \in 1 .. Len(sensor_positions) :
            i # j => 4 * Dist2(sensor_positions[i], sensor_positions[j])
                         >= sensor_radius * sensor_radius

C2_Witness ==
    /\ pc = "placed"
    /\ algo = "rl"
    /\ epsilon = 1
    /\ sensor_radius = 2
    /\ Len(sensor_positions) = 2
    /\ Dist2(sensor_positions[1], sensor_positions[2]) = 1

\* C3: a placement returned by the greedy, the epsilon-greedy or the genetic
\* strategy holds at most num_sensors positions, each a cell (r, c) of the
\* BP field: 0 <= r < rows and 0 <= c < cols
C3_Bounded ==
    pc \in {"placed", "scored"} =>
        /\ Len(sensor_positions) <= num_sensors
        /\ \A i \in 1 .. Len(sensor_positions) :
               /\ 0 <= sensor_positions[i][1]
               /\ sensor_positions[i][1] < rows
               /\ 0 <= sensor_positions[i][2]
               /\ sensor_positions[i][2] < cols

C3_Witness ==
    /\ pc = "placed"
    /\ algo = "genetic"
    /\ generation = 2
    /\ mutation_rate = 1
    /\ Len(sensor_positions) = 2
    /\ sensor_positions[1] # sensor_positions[2]

\* C4: for population_size >= 1 and num_generations >= 1 the genetic
\* strategy returns exactly num_sensors positions, no two of them the same
C4_GeneticDistinct ==
    (/\ algo = "genetic"
     /\ population_size >= 1
     /\ num_generations >= 1
     /\ pc \in {"placed", "scored", "returned_none", "failed"}) =>
        /\ pc \in {"placed", "scored"}
        /\ Len(sensor_positions) = num_sensors
        /\ \A i, j \in 1 .. Len(sensor_positions) :
               i # j => sensor_positions[i] # sensor_positions[j]

\* C5: the coverage is the number of burning cells (fire value >= threshold)
\* within sensor_radius, inclusive, of at least one sensor, over the number
\* of burning cells; it lies in [0, 1]; it is 1.0 when no cell burns
C5_Coverage ==
    pc = "scored" =>
        LET burning == {p \in Cells : fire_map[p] >= detection_threshold}
            covered == {p \in burning :
                           \E i \in 1 .. Len(sensor_positions) :
                               4 * Dist2(p, sensor_positions[i])
                                   <= sensor_radius * sensor_radius}
        IN  /\ burning = {} => coverage = <<1, 1>>
            /\ burning # {} => coverage = <<Cardinality(covered),
                                            Cardinality(burning)>>
            /\ 0 <= coverage[1]
            /\ coverage[1] <= coverage[2]
            /\ coverage[2] > 0

C5_Witness ==
    /\ pc = "scored"
    /\ Len(sensor_positions) = 2
    /\ coverage[1] > 0
    /\ coverage[1] < coverage[2]

\* a sensor of the placement stands on a burning cell within reach of p
Confirmed(p, positions, fire) ==
    \E i \in 1 .. Len(positions) :
        /\ fire[positions[i]] >= detection_threshold
        /\ 4 * Dist2(p, positions[i]) <= sensor_radius * sensor_radius

\* C6: after the BP update of step t, every cell within sensor_radius of a
\* sensor standing on a burning cell is exactly 1.0; every other cell is
\* decay_factor times its value before the step when t > 0, and unchanged
\* when t = 0
C6_BPUpdate ==
    [][t' = t + 1 =>
        \A p \in Cells :
            IF Confirmed(p, sensor_positions', fire_map')
            THEN bp_map'[p] = One
            ELSE IF t > 0
                 THEN DecayDen * bp_map'[p] = bp_decay * bp_map[p]
                 ELSE bp_map'[p] = bp_map[p]]_vars

C6_Witness ==
    /\ Executed = 2
    /\ bp_decay < DecayDen
    /\ \E p \in Cells : Confirmed(p, sensor_positions, fire_map)
    /\ \E p \in Cells :
           /\ ~Confirmed(p, sensor_positions, fire_map)
           /\ bp_map[p] > 0
           /\ bp_map[p] < bp_maps[2][p]

\* C7: after compute_metrics, coverage_over_time is the sequence given,
\* average_coverage its arithmetic mean and final_coverage its last
\* element; both are 0.0 for the empty sequence
C7_Metrics ==
    metrics_calls >= 1 =>
        IF coverage_over_time = <<>>
        THEN /\ RatEq(average_coverage, <<0, 1>>)
             /\ RatEq(final_coverage, <<0, 1>>)
        ELSE /\ RatEq(<<average_coverage[1] * Len(coverage_over_time),
                        average_coverage[2]>>,
                      RatSum(coverage_over_time))
             /\ final_coverage = coverage_over_time[Len(coverage_over_time)]

\* C8: when the fire source supplies fewer than num_time_steps grids, the
\* run fails before the loop starts: no placement, no BP update, no
\* per-step record and no BP snapshot for any step
C8_FailsBeforeLoop ==
    Cardinality(present) < num_time_steps =>
        /\ sensor_positions_history = <<>>
        /\ coverage_history = <<>>
        /\ Len(bp_maps) <= 1
        /\ log_records = <<>>
        /\ bp_saved = <<>>

\* C9: the loop runs the steps 0, 1, ... in order, one record per step, and
\* when run_simulation returns exactly num_time_steps placements, coverage
\* records and per-step log records exist, the record of step s holding s,
\* the placement of step s and the coverage of step s
C9_LoopCompletes ==
    /\ pc \in {"run", "completed", "failed"} =>
           /\ Executed = t
           /\ Len(coverage_history) = t
           /\ Len(log_records) = t
           /\ \A i \in 1 .. t :
                  /\ log_records[i].time_step = i - 1
                  /\ log_records[i].sensor_positions =
                         sensor_positions_history[i]
                  /\ log_records[i].coverage = coverage_history[i]
    /\ pc = "completed" => t = num_time_steps

C9_Witness ==
    /\ pc = "completed"
    /\ num_time_steps = 2
    /\ Len(log_records) = 2
    /\ Len(sensor_positions_history[2]) = 2

\* C11: a configuration with num_sensors <= 0, sensor_radius <= 0 or, for
\* the genetic strategy, population_size = 0 or num_generations = 0 is
\* rejected before the run: no step is executed and no placement is ever
\* appended to the placement history
C11_BadConfigRejected ==
    (\/ num_sensors <= 0
     \/ sensor_radius <= 0
     \/ (algo = "genetic" /\ (population_size = 0 \/ num_generations = 0))) =>
        /\ sensor_positions_history = <<>>
        /\ t = 0

\* every cell is closer than sensor_radius to a position of the placement
Exhausted(positions) ==
    \A cell \in Cells :
        \E i \in 1 .. Len(positions) :
            4 * Dist2(cell, positions[i]) < sensor_radius * sensor_radius

\* C12: the greedy and the epsilon-greedy selection always return a
\* placement, and one shorter than num_sensors only when no cell is left at
\* distance >= sensor_radius from every selected position; the simulation
\* loop records such a placement with its BP snapshot, coverage and log
\* record, goes on to the next step, and fails for a missing grid only
C12_Exhaustion ==
    /\ pc = "call" =>
           PlaceSensors(fire_map, bp_for_placement, prev_sensor_positions) # {}
    /\ (pc \in {"placed", "scored"} /\ Len(sensor_positions) < num_sensors) =>
           Exhausted(sensor_positions)
    /\ pc \in {"run", "completed", "failed"} =>
           /\ \A i \in 1 .. Executed :
                  Len(sensor_positions_history[i]) < num_sensors =>
                      Exhausted(sensor_positions_history[i])
           /\ Len(coverage_history) = Executed
           /\ Len(log_records) = Executed
           /\ bp_maps # <<>> => Len(bp_maps) = Executed + 1
    /\ (pc = "run" /\ t < num_time_steps /\ t < Len(fire_maps)) =>
           PlaceSensors(fire_maps[t + 1], BPForPlacement,
                        prev_sensor_positions) # {}
    /\ pc = "failed" => Len(fire_maps) <= t

C12_Witness ==
    /\ pc = "completed"
    /\ Executed = 2
    /\ num_sensors = 2
    /\ Len(sensor_positions_history[1]) = 1
    /\ Len(sensor_positions_history[2]) = 1
    /\ Len(log_records) = 2

\* C13: for num_sensors >= 1, population_size >= 1 and num_generations >= 1
\* the genetic place_sensors fails neither in selection nor in crossover,
\* runs exactly num_generations generations and returns a candidate
C13_GeneticTerminates ==
    (/\ algo = "genetic"
     /\ num_sensors >= 1
     /\ population_size >= 1
     /\ num_generations >= 1) =>
        /\ pc # "failed"
        /\ pc # "returned_none"
        /\ generation <= num_generations
        /\ pc \in {"placed", "scored"} => generation = num_generations

\* a call of place_sensors has returned: a single call, or the call of the
\* last executed step of a run
Called ==
    \/ pc \in {"placed", "scored"}
    \/ (pc \in {"run", "completed", "failed"} /\ Executed >= 1)

\* the prev_positions argument of that call
CallPrev ==
    IF pc \in {"placed", "scored"} THEN prev_sensor_positions
    ELSE IF Executed <= 1 THEN None
    ELSE sensor_positions_history[Executed - 1]

\* the position of a cell in row-major order
RowMajor(cell) == cell[1] * cols + cell[2]

\* the cells at distance >= sensor_radius from the positions before the i-th
FarCells(positions, i) ==
    {c \in Cells :
        \A j \in 1 .. i - 1 :
            4 * Dist2(c, positions[j]) >= sensor_radius * sensor_radius}

\* ten times the effective score of a cell: its BP value, multiplied by 0.1
\* when the cell is in prev_positions
EffectiveScore(cell) ==
    IF InSeq(cell, CallPrev)
    THEN bp_for_placement[cell]
    ELSE 10 * bp_for_placement[cell]

\* the call of scenario A: 3x3 grid, one sensor of radius 1, threshold 0.5,
\* fire and BP 1 at the centre and 0 elsewhere, no prev_positions
ScenarioA ==
    /\ rows = 3
    /\ cols = 3
    /\ num_sensors = 1
    /\ sensor_radius = 2
    /\ detection_threshold = One \div 2
    /\ fire_map = CentreField
    /\ bp_for_placement = CentreField
    /\ prev_sensor_positions = None

\* C14: every position the greedy strategy accepts has the highest effective
\* score among the cells at distance >= sensor_radius from all positions
\* accepted before it, and is the first such cell in row-major order; with
\* no prev_positions a cell whose BP value is the only maximum is selected
\* first; in scenario A the placement is (1, 1) and the coverage 1.0
C14_GreedyRule ==
    (Called /\ algo = "greedy") =>
        /\ \A i \in 1 .. Len(sensor_positions) :
               /\ sensor_positions[i] \in FarCells(sensor_positions, i)
               /\ \A c \in FarCells(sensor_positions, i) :
                      \/ EffectiveScore(c) < EffectiveScore(sensor_positions[i])
                      \/ /\ EffectiveScore(c) = EffectiveScore(sensor_positions[i])
                         /\ RowMajor(c) >= RowMajor(sensor_positions[i])
        /\ (CallPrev = None /\ num_sensors >= 1) =>
               \A c \in Cells :
                   (\A d \in Cells \ {c} :
                        bp_for_placement[d] < bp_for_placement[c]) =>
                       /\ Len(sensor_positions) >= 1
                       /\ sensor_positions[1] = c
        /\ (ScenarioA /\ pc = "scored") =>
               /\ sensor_positions = <<<<1, 1>>>>
               /\ coverage = <<1, 1>>

C14_Witness ==
    /\ pc = "placed"
    /\ algo = "greedy"
    /\ rows = 1
    /\ sensor_radius = 3
    /\ prev_sensor_positions # None
    /\ Len(sensor_positions) >= 2
    /\ FarCells(sensor_positions, 2) # Cells \ {sensor_positions[1]}
    /\ \E c \in FarCells(sensor_positions, 2) \ {sensor_positions[2]} :
           EffectiveScore(c) = EffectiveScore(sensor_positions[2])

\* twenty times the value of a cell: 0.7 * bp + 0.3 * fire, halved when the
\* cell is in prev_positions
ValueOfCell(cell) ==
    IF InSeq(cell, CallPrev)
    THEN 7 * bp_for_placement[cell] + 3 * fire_map[cell]
    ELSE 2 * (7 * bp_for_placement[cell] + 3 * fire_map[cell])

\* C15: every pick of the epsilon-greedy strategy is at distance >=
\* sensor_radius from all earlier picks, so no cell closer than that to a
\* pick is ever chosen later; with epsilon = 0 every pick has the highest
\* value alpha*bp + beta*fire (halved for a cell of prev_positions) among the
\* cells still valid and is the first such cell in row-major order, and
\* the selection goes on until num_sensors are placed or no cell is valid,
\* which determines the placement
C15_EpsilonGreedyRule ==
    (Called /\ algo = "rl") =>
        /\ \A i \in 1 .. Len(sensor_positions) :
               sensor_positions[i] \in FarCells(sensor_positions, i)
        /\ epsilon = 0 =>
               /\ \A i \in 1 .. Len(sensor_positions) :
                      \A c \in FarCells(sensor_positions, i) :
                          \/ ValueOfCell(c) < ValueOfCell(sensor_positions[i])
                          \/ /\ ValueOfCell(c) = ValueOfCell(sensor_positions[i])
                             /\ RowMajor(c) >= RowMajor(sensor_positions[i])
               /\ Len(sensor_positions) <= num_sensors
               /\ Len(sensor_positions) < num_sensors =>
                      Exhausted(sensor_positions)

C15_Witness ==
    /\ pc = "placed"
    /\ algo = "rl"
    /\ epsilon = 0
    /\ rows = 1
    /\ sensor_radius = 3
    /\ prev_sensor_positions # None
    /\ Len(sensor_positions) >= 2
    /\ FarCells(sensor_positions, 2) # Cells \ {sensor_positions[1]}
    /\ \E c \in FarCells(sensor_positions, 2) \ {sensor_positions[2]} :
           ValueOfCell(c) = ValueOfCell(sensor_positions[2])

\* the fitness of a candidate in the call at hand
FitnessOf(candidate) ==
    Fitness(candidate, bp_for_placement, fire_map, sensor_radius)

\* the highest fitness in the population
MaxFitness ==
    CHOOSE m \in {FitnessOf(population[i]) : i \in 1 .. Len(population)} :
        \A i \in 1 .. Len(population) : FitnessOf(population[i]) <= m

\* the first candidate of the population that has the highest fitness
FirstFittest ==
    population[CHOOSE i \in 1 .. Len(population) :
                   /\ FitnessOf(population[i]) = MaxFitness
                   /\ \A j \in 1 .. i - 1 : FitnessOf(population[j]) < MaxFitness]

\* C16: the tracked best fitness never decreases; the evaluation at the start
\* of a generation leaves the tracked pair alone when no candidate of the
\* population is fitter than it, and otherwise makes it the first candidate
\* of the highest fitness in the population; no other step (selection,
\* crossover, mutation, replacement) changes the tracked candidate; the
\* tracked fitness is the fitness of the tracked candidate, which is what
\* place_sensors returns
C16_BestEver ==
    /\ [](best_candidate # None =>
              /\ best_fitness # None
              /\ FitnessOf(best_candidate[1]) = best_fitness[1])
    /\ []((algo = "genetic" /\ pc \in {"placed", "scored"}) =>
              sensor_positions = best_candidate[1])
    /\ [][/\ best_fitness # None =>
                 /\ best_fitness' # None
                 /\ best_fitness'[1] >= best_fitness[1]
          /\ IF pc = "gen_loop" /\ pc' \in {"gen_select", "gen_cross"}
             THEN IF \/ population = <<>>
                     \/ (best_fitness # None /\ best_fitness[1] >= MaxFitness)
                  THEN /\ best_candidate' = best_candidate
                       /\ best_fitness' = best_fitness
                  ELSE /\ best_candidate' = <<FirstFittest>>
                       /\ best_fitness' = <<MaxFitness>>
             ELSE /\ best_candidate' = best_candidate
                  /\ best_fitness' = best_fitness]_vars

C16_Witness ==
    /\ pc = "placed"
    /\ algo = "genetic"
    /\ generation = 2
    /\ ~InSeq(best_candidate[1], population)
    /\ \A i \in 1 .. Len(population) :
           FitnessOf(population[i]) < best_fitness[1]

\* the summary of a sequence: what compute_metrics leaves in a
\* SimulationMetrics object that has not been used before
SummaryOf(coverage_hist) ==
    IF coverage_hist = <<>> THEN <<<<0, 1>>, <<0, 1>>>>
    ELSE <<Mean(coverage_hist), coverage_hist[Len(coverage_hist)]>>

\* C17: whatever an object computed before, a call of compute_metrics leaves
\* in average_coverage and final_coverage the summary of the sequence it was
\* given and nothing of the earlier calls; for the empty sequence both are 0.0
C17_NoIndependentState ==
    [][metrics_calls' = metrics_calls + 1 =>
          /\ RatEq(average_coverage', SummaryOf(coverage_over_time')[1])
          /\ RatEq(final_coverage', SummaryOf(coverage_over_time')[2])]_vars

\* C18: at every executed step s the fire field used for the placement and
\* the BP reinforcement, and the one the coverage is computed from, is the
\* grid of the file of step s, also when files of other steps are missing
C18_FieldAlignment ==
    (pc \in {"run", "completed", "failed"} /\ Executed >= 1) =>
        /\ fire_map = FileGrid(Executed - 1)
        /\ \A i \in 1 .. Executed :
               coverage_history[i] =
                   ComputeCoverage(FileGrid(i - 1), sensor_positions_history[i],
                                   detection_threshold, sensor_radius)

\* C19: the BP history starts with the initial field, grows by exactly one
\* snapshot, that of the live grid, in every executed step, and no entry it
\* already holds is changed by any later step
C19_AppendOnly ==
    /\ [](bp_maps # <<>> =>
              /\ bp_maps[1] = FieldOf(bp_seed)
              /\ Len(bp_maps) = Executed + 1)
    /\ [][/\ Len(bp_maps) <= Len(bp_maps')
          /\ SubSeq(bp_maps', 1, Len(bp_maps)) = bp_maps
          /\ t' = t + 1 =>
                 /\ Len(bp_maps') = Len(bp_maps) + 1
                 /\ bp_maps'[Len(bp_maps')] = bp_map']_vars

C19_Witness ==
    /\ Executed = 2
    /\ bp_decay < DecayDen
    /\ \E p \in Cells : bp_maps[1][p] < One /\ bp_maps[2][p] = One
    /\ bp_maps[2] # bp_maps[3]

=============================================================================
